---- MODULE Spec2Model ----
(***************************************************************************)
(* Model of the spreadsheet-to-metrics extraction of the Excel analytics   *)
(* dashboard (src/public/app.js): the numeric cell normaliser toNumber,    *)
(* the overview-sheet parser parseOverviewStyle, the KPI deriver           *)
(* computeKPIsFromSeries, the /api/upload handler and, of the browser     *)
(* side, the cost-per-message series, the recommendations and the upload   *)
(* button's uploadAndRender.                                               *)
(*                                                                         *)
(* JavaScript values are modelled as follows.                              *)
(*  - A string is a sequence of characters; a character is a one-token     *)
(*    TLA+ string ("a", " ", and the tokens "emdash", "peso", "nbsp" for   *)
(*    the non-ASCII characters U+2014, U+20B1, U+00A0).                    *)
(*  - A spreadsheet cell is a record [t, n, s]: t is "null" (null or       *)
(*    undefined, an empty cell), "num" (a finite integer number n), "str"  *)
(*    (the string s) or "date" (a Date whose month index is n = 12*y+m0).  *)
(*  - A JavaScript number-or-null result is a record [k, n, d]: k is       *)
(*    "num" (the finite rational n/d in lowest terms, d > 0), "null",      *)
(*    "nan", "inf" (n is the sign) or "undef".                             *)
(***************************************************************************)
EXTENDS Integers, Sequences, FiniteSets, TLC

VARIABLES
    pc,        \* position of the modelled call or handler
    cell,      \* toNumber: the argument v
    number,    \* toNumber: the value returned
    aoa,       \* parseOverviewStyle / upload handler: the grid (array of arrays)
    headerRowIndex,  \* parseOverviewStyle: its local headerRowIndex
    parsed,    \* parseOverviewStyle: the value returned
    resolved,  \* computeKPIsFromSeries: its locals keySpent ... keyCAC
    kpis,      \* computeKPIsFromSeries: the value returned
    req,       \* upload handler: the request, after multer has stored its file
    upload,    \* upload handler: the stored upload file
    res,       \* upload handler: the last response sent
    sent,      \* upload handler: the number of responses sent for the request
    computedCPM,  \* renderCharts: its local computedCPM
    targetCac,    \* page: targetCacInput.value
    recs,         \* renderRecommendations: its local recs
    disabled,     \* page: uploadBtn.disabled
    statusMsg,    \* page: what setStatus last showed
    inflight,     \* page: the calls of uploadAndRender awaiting their response
    response,     \* uploadAndRender: the last response its fetch resolved to
    latestPayload,  \* page: window.latestPayload
    cards,        \* page: the payload whose KPI cards fill kpiGrid
    charts,       \* page: the datasets of the charts on the page
    table,        \* page: the rows renderTablePreview put in tableBody
    grids,        \* extraction: the grids the caller holds
    runs          \* extraction: the calls made, each with its grid and results

cellVars == <<cell, number>>
parseVars == <<aoa, headerRowIndex, parsed>>
kpiVars == <<resolved, kpis>>
handlerVars == <<req, upload, res, sent>>
chartVars == <<computedCPM, targetCac, recs>>
pageVars == <<disabled, statusMsg, inflight, response, latestPayload, cards, charts, table>>
runVars == <<grids, runs>>

vars == <<pc, cellVars, parseVars, kpiVars, handlerVars, chartVars, pageVars, runVars>>

-----------------------------------------------------------------------------
(* JavaScript numbers *)

Num(n) == [k |-> "num", n |-> n, d |-> 1]
Null == [k |-> "null", n |-> 0, d |-> 1]
NaN == [k |-> "nan", n |-> 0, d |-> 1]
Inf(sign) == [k |-> "inf", n |-> sign, d |-> 1]
Undef == [k |-> "undef", n |-> 0, d |-> 1]

\* Number.isFinite(v): true only of a number that is neither NaN nor infinite
IsFinite(v) == v.k = "num"

Abs(i) == IF i < 0 THEN -i ELSE i

RECURSIVE Gcd(_, _)
Gcd(a, b) == IF b = 0 THEN a ELSE Gcd(b, a % b)

\* the rational a/b (b # 0) in lowest terms with a positive denominator
Frac(a, b) ==
    LET g == Gcd(Abs(a), Abs(b))
        s == IF b < 0 THEN -1 ELSE 1
    IN  [k |-> "num", n |-> (s * a) \div g, d |-> (s * b) \div g]

\* the JavaScript operator a / b on two finite numbers
JsDivide(a, b) ==
    IF b.n = 0
    THEN IF a.n = 0 THEN NaN ELSE Inf(IF a.n < 0 THEN -1 ELSE 1)
    ELSE Frac(a.n * b.d, a.d * b.n)

\* the JavaScript operator a + b on two finite numbers
JsAdd(a, b) == Frac(a.n * b.d + b.n * a.d, a.d * b.d)

-----------------------------------------------------------------------------
(* JavaScript strings *)

Digits == <<"0", "1", "2", "3", "4", "5", "6", "7", "8", "9">>
Uppers == <<"A", "B", "C", "D", "E", "F", "G", "H", "I", "J", "K", "L", "M",
            "N", "O", "P", "Q", "R", "S", "T", "U", "V", "W", "X", "Y", "Z">>
Lowers == <<"a", "b", "c", "d", "e", "f", "g", "h", "i", "j", "k", "l", "m",
            "n", "o", "p", "q", "r", "s", "t", "u", "v", "w", "x", "y", "z">>

\* the characters String.prototype.trim removes and the regex class \s matches
WhiteSpace == {" ", "tab", "nl", "nbsp"}

IsDigit(c) == \E i \in 1..10 : Digits[i] = c
DigitVal(c) == (CHOOSE i \in 1..10 : Digits[i] = c) - 1

\* the regex class \w: letters, digits and underscore
IsWordChar(c) ==
    \/ IsDigit(c)
    \/ c = "_"
    \/ \E i \in 1..26 : Uppers[i] = c \/ Lowers[i] = c

LowerTable == [c \in {Uppers[i] : i \in 1..26} |->
                  Lowers[CHOOSE i \in 1..26 : Uppers[i] = c]]

LowerChar(c) == IF c \in DOMAIN LowerTable THEN LowerTable[c] ELSE c

\* String.prototype.toLowerCase
ToLowerCase(s) == [i \in 1..Len(s) |-> LowerChar(s[i])]

\* String.prototype.trim
Trim(s) ==
    LET keep == {i \in 1..Len(s) : s[i] \notin WhiteSpace}
    IN  IF keep = {} THEN <<>>
        ELSE LET lo == CHOOSE i \in keep : \A j \in keep : i <= j
                 hi == CHOOSE i \in keep : \A j \in keep : j <= i
             IN  SubSeq(s, lo, hi)

\* s.replace(/[chars]/g, "")
RemoveChars(s, chars) == SelectSeq(s, LAMBDA c : c \notin chars)

\* String.prototype.includes
Includes(s, t) ==
    \E i \in 1..(Len(s) - Len(t) + 1) : SubSeq(s, i, i + Len(t) - 1) = t

RECURSIVE DigitsOf(_)
DigitsOf(n) ==
    IF n < 10 THEN <<Digits[n + 1]>>
    ELSE Append(DigitsOf(n \div 10), Digits[(n % 10) + 1])

\* String(n) for an integer number n
IntToString(n) == IF n < 0 THEN <<"-">> \o DigitsOf(-n) ELSE DigitsOf(n)

RECURSIVE DigitsValue(_)
DigitsValue(s) ==
    IF s = <<>> THEN 0
    ELSE 10 * DigitsValue(SubSeq(s, 1, Len(s) - 1)) + DigitVal(s[Len(s)])

AllDigits(s) == \A i \in 1..Len(s) : IsDigit(s[i])

\* Number(s) for a string s: surrounding white space is dropped, the empty
\* string is 0, a signed decimal integer literal is its value and every
\* other string of the modelled alphabet is NaN.  (The alphabet has no ".",
\* and no cell spells an exponent, a radix prefix or "Infinity".)
StringToNumber(s) ==
    LET t == Trim(s)
        signed == t # <<>> /\ t[1] \in {"-", "+"}
        body == IF signed THEN SubSeq(t, 2, Len(t)) ELSE t
    IN  IF t = <<>> THEN Num(0)
        ELSE IF body # <<>> /\ AllDigits(body)
             THEN Num(IF signed /\ t[1] = "-" THEN -DigitsValue(body)
                      ELSE DigitsValue(body))
             ELSE NaN

-----------------------------------------------------------------------------
(* Spreadsheet cells *)

NullCell == [t |-> "null", n |-> 0, s |-> <<>>]
NumCell(n) == [t |-> "num", n |-> n, s |-> <<>>]
StrCell(s) == [t |-> "str", n |-> 0, s |-> s]
DateCell(y, m) == [t |-> "date", n |-> 12 * y + (m - 1), s |-> <<>>]

DateYear(c) == c.n \div 12
DateMonth(c) == (c.n % 12) + 1

MonthNames ==
    << <<"J", "a", "n">>, <<"F", "e", "b">>, <<"M", "a", "r">>,
       <<"A", "p", "r">>, <<"M", "a", "y">>, <<"J", "u", "n">>,
       <<"J", "u", "l">>, <<"A", "u", "g">>, <<"S", "e", "p">>,
       <<"O", "c", "t">>, <<"N", "o", "v">>, <<"D", "e", "c">> >>

\* String(v ?? ""): null and undefined give "", a string itself, a number
\* its decimal form, a Date its "Www Mmm dd yyyy ..." form, of which the
\* model keeps the month and year tokens
ToStr(v) ==
    CASE v.t = "null" -> <<>>
      [] v.t = "str" -> v.s
      [] v.t = "num" -> IntToString(v.n)
      [] v.t = "date" ->
            MonthNames[DateMonth(v)] \o <<" ">> \o IntToString(DateYear(v))

-----------------------------------------------------------------------------
(* toNumber, app.js 677-693 *)

\* the earlier toNumber of the repository (app.js 890-896), which has no
\* test for blank strings: Number("") is 0
toNumberNoBlankTest(v) ==
    IF v.t = "null" THEN Null
    ELSE IF v.t = "num" THEN Num(v.n)
    ELSE LET cleaned ==
                 RemoveChars(RemoveChars(ToStr(v), {"peso", ",", "$"} \cup WhiteSpace),
                             {","})
             n == StringToNumber(cleaned)
         IN  IF IsFinite(n) THEN n ELSE Null

toNumber(v) ==
    IF v.t = "null" THEN Null
    ELSE IF v.t = "str"
            /\ LET raw == Trim(v.s)
               IN  raw = <<>> \/ raw = <<"-">> \/ raw = <<"emdash">>
    THEN Null
    ELSE IF v.t = "num" THEN (IF IsFinite(Num(v.n)) THEN Num(v.n) ELSE Null)
    ELSE LET cleaned ==
                 Trim(RemoveChars(
                          RemoveChars(ToStr(v), {"peso", ",", "$"} \cup WhiteSpace),
                          {","}))
         IN  IF cleaned = <<>> THEN Null
             ELSE LET n == StringToNumber(cleaned)
                  IN  IF IsFinite(n) THEN n ELSE Null

-----------------------------------------------------------------------------
(* parseOverviewStyle, app.js 713-763 *)

HeaderScanRows == 60
HeaderMinDates == 3
SerialLow == 20000
SerialHigh == 60000
MaxDateCode == 2958465

Min(a, b) == IF a < b THEN a ELSE b
Max(a, b) == IF a < b THEN b ELSE a

\* aoa[r] || [], r counted from 0 as in the source
RowAt(grid, r) == IF r + 1 \in 1..Len(grid) THEN grid[r + 1] ELSE <<>>

\* row.slice(1)
Slice1(row) == IF row = <<>> THEN <<>> ELSE Tail(row)

\* /\b(20\d{2}|19\d{2})\b/.test(s): a four-digit token starting 19 or 20
\* with a word boundary on both sides
HasYearToken(s) ==
    \E i \in 1..(Len(s) - 3) :
        /\ s[i] \in {"1", "2"}
        /\ s[i + 1] = (IF s[i] = "1" THEN "9" ELSE "0")
        /\ IsDigit(s[i + 2])
        /\ IsDigit(s[i + 3])
        /\ (i = 1 \/ ~IsWordChar(s[i - 1]))
        /\ (i + 3 = Len(s) \/ ~IsWordChar(s[i + 4]))

\* a filter whose window for numbers takes in both of its ends
IsDateLikeClosed(c) ==
    CASE c.t = "date" -> TRUE
      [] c.t = "num" -> c.n >= SerialLow /\ c.n <= SerialHigh
      [] c.t = "str" -> HasYearToken(c.s)
      [] OTHER -> FALSE

\* the filter callback of lines 718-723
IsDateLike(c) ==
    CASE c.t = "date" -> TRUE
      [] c.t = "num" -> c.n > SerialLow /\ c.n < SerialHigh
      [] c.t = "str" -> HasYearToken(c.s)
      [] OTHER -> FALSE

\* row.slice(1).filter(...).length
DateLikeCount(row) == Len(SelectSeq(Slice1(row), IsDateLike))

\* a scan that goes on past the first HeaderScanRows rows
RECURSIVE ScanHeaderUnbounded(_, _)
ScanHeaderUnbounded(grid, r) ==
    IF r >= Len(grid) THEN -1
    ELSE IF DateLikeCount(RowAt(grid, r)) >= HeaderMinDates THEN r
    ELSE ScanHeaderUnbounded(grid, r + 1)

\* the loop of lines 716-729 from row r on: the index it breaks at, or -1
RECURSIVE ScanHeader(_, _)
ScanHeader(grid, r) ==
    IF r >= Min(Len(grid), HeaderScanRows) THEN -1
    ELSE IF DateLikeCount(RowAt(grid, r)) >= HeaderMinDates THEN r
    ELSE ScanHeader(grid, r + 1)

\* the year, month and day of the day `days` days after 1970-01-01
\* (proleptic Gregorian calendar), as JavaScript's Date computes them
CivilFromDays(days) ==
    LET z == days + 719468
        era == z \div 146097
        doe == z - era * 146097
        yoe == (doe - doe \div 1460 + doe \div 36524 - doe \div 146096) \div 365
        doy == doe - (365 * yoe + yoe \div 4 - yoe \div 100)
        mp == (5 * doy + 2) \div 153
        d == doy - (153 * mp + 2) \div 5 + 1
        m == IF mp < 10 THEN mp + 3 ELSE mp - 9
        y == yoe + era * 400 + (IF m <= 2 THEN 1 ELSE 0)
    IN  [y |-> y, m |-> m, d |-> d]

\* new Date(d.y, d.m - 1, d.d) for d = XLSX.SSF.parse_date_code(v), v an
\* integer serial in 0..MaxDateCode: serial 60 is the 1900-02-29 that never
\* was (the Date rolls over to 1 March), serial 0 is day 0 of January 1900,
\* serials above 60 are one day less after 1900-01-01 than those below
DateOfSerial(v) ==
    LET date == IF v > 60 THEN v - 1 ELSE v
    IN  CivilFromDays(date - 1 - 25567)

TwoDigits(n) == <<Digits[((n \div 10) % 10) + 1], Digits[(n % 10) + 1]>>

\* toLocaleString("en-US", {month: "short", year: "2-digit"})
MonthYearLabel(y, m) == MonthNames[m] \o <<" ">> \o TwoDigits(y % 100)

\* String(cell ?? "").trim() || the em-dash
TextLabel(c) == IF Trim(ToStr(c)) = <<>> THEN <<"emdash">> ELSE Trim(ToStr(c))

\* the map callback of lines 734-748
FormatLabel(c) ==
    IF c.t = "date" THEN MonthYearLabel(DateYear(c), DateMonth(c))
    ELSE IF c.t = "num" /\ ~(c.n > MaxDateCode \/ c.n < 0)
    THEN LET d == DateOfSerial(c.n) IN MonthYearLabel(d.y, d.m)
    ELSE TextLabel(c)

\* A JavaScript object with string keys is a sequence of entries [k, v] in
\* the order Object.keys lists them: keys that are array indices first, in
\* ascending order, then the others in insertion order.  (An array index is
\* a canonical decimal below 2^32 - 1; the model's keys have under 10 digits.)
IsIndexKey(k) ==
    /\ k # <<>>
    /\ AllDigits(k)
    /\ (k[1] # "0" \/ Len(k) = 1)
    /\ Len(k) <= 9

HasKey(obj, k) == \E i \in 1..Len(obj) : obj[i].k = k

ValueOf(obj, k) == obj[CHOOSE i \in 1..Len(obj) : obj[i].k = k].v

\* the position a new key takes among the keys of obj
InsertAt(obj, k) ==
    IF ~IsIndexKey(k) THEN Len(obj) + 1
    ELSE LET later == {i \in 1..Len(obj) :
                           \/ ~IsIndexKey(obj[i].k)
                           \/ DigitsValue(obj[i].k) > DigitsValue(k)}
         IN  IF later = {} THEN Len(obj) + 1
             ELSE CHOOSE i \in later : \A j \in later : i <= j

\* an assignment that leaves a key the object already has as it is
SetKeyKeepFirst(obj, k, v) ==
    IF HasKey(obj, k) THEN obj
    ELSE LET p == InsertAt(obj, k)
         IN  SubSeq(obj, 1, p - 1) \o <<[k |-> k, v |-> v]>> \o SubSeq(obj, p, Len(obj))

\* obj[k] = v
SetKey(obj, k, v) ==
    IF HasKey(obj, k)
    THEN [i \in 1..Len(obj) |-> IF obj[i].k = k THEN [k |-> k, v |-> v] ELSE obj[i]]
    ELSE LET p == InsertAt(obj, k)
         IN  SubSeq(obj, 1, p - 1) \o <<[k |-> k, v |-> v]>> \o SubSeq(obj, p, Len(obj))

\* String(row[0] ?? "").trim()
MetricName(row) == IF row = <<>> THEN <<>> ELSE Trim(ToStr(row[1]))

\* row.slice(1).map(toNumber)
RowValues(row) == [i \in 1..Len(Slice1(row)) |-> toNumber(Slice1(row)[i])]

\* values.some((v) => Number.isFinite(v))
SomeFinite(values) == \E i \in 1..Len(values) : IsFinite(values[i])

\* an extraction that does not skip the rows whose values are all null
RECURSIVE ExtractSeriesKeepAllNull(_, _, _)
ExtractSeriesKeepAllNull(grid, r, series) ==
    IF r >= Len(grid) THEN series
    ELSE LET row == RowAt(grid, r)
             metricName == MetricName(row)
             values == RowValues(row)
         IN  IF metricName = <<>> THEN ExtractSeriesKeepAllNull(grid, r + 1, series)
             ELSE ExtractSeriesKeepAllNull(grid, r + 1,
                                           SetKey(series, metricName, values))

\* the loop of lines 751-760 from row r on, series being what it has built
RECURSIVE ExtractSeries(_, _, _)
ExtractSeries(grid, r, series) ==
    IF r >= Len(grid) THEN series
    ELSE LET row == RowAt(grid, r)
             metricName == MetricName(row)
             values == RowValues(row)
         IN  IF metricName = <<>> THEN ExtractSeries(grid, r + 1, series)
             ELSE IF ~SomeFinite(values) THEN ExtractSeries(grid, r + 1, series)
             ELSE ExtractSeries(grid, r + 1, SetKey(series, metricName, values))

NotParsed == [st |-> "pending", labels |-> <<>>, series |-> <<>>]
ParsedNull == [st |-> "null", labels |-> <<>>, series |-> <<>>]

\* the value parseOverviewStyle returns once its scan has set header
ParseFrom(grid, header) ==
    IF header = -1 THEN ParsedNull
    ELSE [st |-> "ok",
          labels |-> [i \in 1..Len(Slice1(RowAt(grid, header))) |->
                        FormatLabel(Slice1(RowAt(grid, header))[i])],
          series |-> ExtractSeries(grid, header + 1, <<>>)]

\* a parse whose series object outlives the call: each call adds to what
\* the call before it left
parseOverviewStyleSharedSeries(grid) ==
    IF ScanHeader(grid, 0) = -1 THEN ParsedNull
    ELSE [ParseFrom(grid, ScanHeader(grid, 0)) EXCEPT
              !.series = ExtractSeries(grid, ScanHeader(grid, 0) + 1, parsed.series)]

parseOverviewStyle(grid) == ParseFrom(grid, ScanHeader(grid, 0))

-----------------------------------------------------------------------------
(* computeKPIsFromSeries and its helpers, app.js 695-711 and 765-819 *)

\* a division that does not test for a zero divisor
safeDivideNoZeroTest(a, b) ==
    IF ~IsFinite(a) \/ ~IsFinite(b) THEN Null ELSE JsDivide(a, b)

safeDivide(a, b) ==
    IF ~IsFinite(a) \/ ~IsFinite(b) \/ b.n = 0 THEN Null ELSE JsDivide(a, b)

\* arr.reduce((a, b) => a + b, 0)
RECURSIVE ReduceAdd(_)
ReduceAdd(arr) ==
    IF arr = <<>> THEN Num(0)
    ELSE JsAdd(ReduceAdd(SubSeq(arr, 1, Len(arr) - 1)), arr[Len(arr)])

sumFinite(arr) == ReduceAdd(SelectSeq(arr, IsFinite))

\* a count of all the months, reported or not
countAll(arr) == Len(arr)

countFinite(arr) == Len(SelectSeq(arr, IsFinite))

IsFinitePositive(v) == IsFinite(v) /\ v.n > 0

\* the average over every finite value, zeros included
avgFiniteWithZeros(arr) ==
    LET nums == SelectSeq(arr, IsFinite)
    IN  IF Len(nums) = 0 THEN Null ELSE JsDivide(ReduceAdd(nums), Num(Len(nums)))

avgFinite(arr) ==
    LET nums == SelectSeq(arr, IsFinitePositive)
    IN  IF Len(nums) = 0 THEN Null ELSE JsDivide(ReduceAdd(nums), Num(Len(nums)))

\* undefined as the result of a key lookup; no key of a series is empty
NoKey == <<>>

\* the key at the least of the positions hits of obj, NoKey when there is none
KeyAtFirst(obj, hits) ==
    IF hits = {} THEN NoKey
    ELSE obj[CHOOSE i \in hits : \A j \in hits : i <= j].k

\* Object.keys(obj).find((k) => k.toLowerCase() === target)
FindEqualKey(obj, target) ==
    KeyAtFirst(obj, {i \in 1..Len(obj) : ToLowerCase(obj[i].k) = target})

\* Object.keys(obj).find((k) => k.toLowerCase().includes(target))
FindIncludingKey(obj, target) ==
    KeyAtFirst(obj, {i \in 1..Len(obj) : Includes(ToLowerCase(obj[i].k), target)})

\* a lookup that goes by substring alone
findKeySubstringOnly(series, name) == FindIncludingKey(series, ToLowerCase(name))

\* findKey, lines 766-772: a || b is b when a is undefined
findKey(series, name) ==
    LET target == ToLowerCase(name)
    IN  IF FindEqualKey(series, target) # NoKey THEN FindEqualKey(series, target)
        ELSE FindIncludingKey(series, target)

\* findKey(a1) || findKey(a2) || ... over the aliases from the i-th on
RECURSIVE FindAny(_, _, _)
FindAny(series, aliases, i) ==
    IF i > Len(aliases) THEN NoKey
    ELSE IF findKey(series, aliases[i]) # NoKey THEN findKey(series, aliases[i])
    ELSE FindAny(series, aliases, i + 1)

AliasesSpent == <<<<"T", "o", "t", "a", "l", " ", "A", "d", " ", "S", "p", "e", "n", "t">>,
                  <<"A", "m", "o", "u", "n", "t", " ", "s", "p", "e", "n", "t">>,
                  <<"A", "d", " ", "S", "p", "e", "n", "t">>>>
AliasesMessages == <<<<"N", "o", ".", " ", "o", "f", " ", "M", "e", "s", "s", "a", "g", "e", "s">>,
                     <<"M", "e", "s", "s", "a", "g", "e", "s">>>>
AliasesRevenue == <<<<"T", "o", "t", "a", "l", " ", "R", "e", "v", "e", "n", "u", "e">>,
                    <<"R", "e", "v", "e", "n", "u", "e">>>>
AliasesCustomers == <<<<"N", "o", ".", " ", "o", "f", " ", "C", "u", "s", "t", "o", "m", "e", "r", "s">>,
                      <<"C", "u", "s", "t", "o", "m", "e", "r", "s">>>>
AliasesCAC == <<<<"C", "A", "C">>>>

\* lines 774-779
ResolveKeys(series) ==
    [spent |-> FindAny(series, AliasesSpent, 1),
     messages |-> FindAny(series, AliasesMessages, 1),
     revenue |-> FindAny(series, AliasesRevenue, 1),
     customers |-> FindAny(series, AliasesCustomers, 1),
     cac |-> FindAny(series, AliasesCAC, 1)]

\* key ? series[key] : []
ArrOf(series, key) == IF key # NoKey THEN ValueOf(series, key) ELSE <<>>

\* key ? sumFinite(arr) : null
TotalOf(series, key) == IF key # NoKey THEN sumFinite(ArrOf(series, key)) ELSE Null

\* total !== null ? total / Math.max(countFinite(arr), 1) : null
AverageOf(series, key) ==
    IF TotalOf(series, key) # Null
    THEN JsDivide(TotalOf(series, key), Num(Max(countFinite(ArrOf(series, key)), 1)))
    ELSE Null

computeKPIsFromSeries(labels, series) ==
    LET key == ResolveKeys(series)
        spent == TotalOf(series, key.spent)
        messages == TotalOf(series, key.messages)
        revenue == TotalOf(series, key.revenue)
        customers == TotalOf(series, key.customers)
        cacExcelStyle == avgFinite(ArrOf(series, key.cac))
        cacBlended == safeDivide(spent, customers)
    IN  [totals |-> [spent |-> spent, messages |-> messages,
                     revenue |-> revenue, customers |-> customers],
         averagesPerMonth |->
             [spent |-> AverageOf(series, key.spent),
              messages |-> AverageOf(series, key.messages),
              revenue |-> AverageOf(series, key.revenue),
              customers |-> AverageOf(series, key.customers)],
         kpis |-> [costPerMessage |-> safeDivide(spent, messages),
                   roas |-> safeDivide(revenue, spent),
                   cac |-> IF IsFinite(cacExcelStyle) THEN cacExcelStyle
                           ELSE cacBlended]]

NoKeys == [spent |-> NoKey, messages |-> NoKey, revenue |-> NoKey,
           customers |-> NoKey, cac |-> NoKey]
NoKpis ==
    [totals |-> [spent |-> Undef, messages |-> Undef,
                 revenue |-> Undef, customers |-> Undef],
     averagesPerMonth |-> [spent |-> Undef, messages |-> Undef,
                           revenue |-> Undef, customers |-> Undef],
     kpis |-> [costPerMessage |-> Undef, roas |-> Undef, cac |-> Undef]]

-----------------------------------------------------------------------------
(* The upload handler, app.js 822-855 *)

PreviewRows == 50

\* aoa.slice(0, 50) kept whole
TablePreviewAllRows(grid) == grid

\* aoa.slice(0, 50)
TablePreviewRows(grid) == SubSeq(grid, 1, Min(Len(grid), PreviewRows))

cOverview == <<"o", "v", "e", "r", "v", "i", "e", "w">>

\* workbook.SheetNames.find((n) => n.toLowerCase() === "overview")
\*     || workbook.SheetNames[0], as an index into the workbook's sheets
PickSheet(workbook) ==
    LET named == {i \in 1..Len(workbook) : ToLowerCase(workbook[i].name) = cOverview}
    IN  IF named = {} THEN 1 ELSE CHOOSE i \in named : \A j \in named : i <= j

NoReq == [hasFile |-> FALSE, readable |-> FALSE, workbook |-> <<>>]
NoRes == [status |-> 0, fields |-> {}, sheetName |-> <<>>, labels |-> <<>>,
          series |-> <<>>, kpis |-> NoKpis, preview |-> <<>>]

\* res.status(400).json({error}) and res.status(500).json({error})
ErrorRes(status) == [NoRes EXCEPT !.status = status, !.fields = {"error"}]

\* res.status(422).json({error, tablePreview})
NotRecognizedRes(sheetName, grid) ==
    [NoRes EXCEPT !.status = 422, !.fields = {"error", "tablePreview"},
                  !.sheetName = sheetName, !.preview = TablePreviewRows(grid)]

\* res.json({mode, sheetName, labels, series, kpis, tablePreview})
SuccessRes(sheetName, grid, p, k) ==
    [status |-> 200,
     fields |-> {"mode", "sheetName", "labels", "series", "kpis", "tablePreview"},
     sheetName |-> sheetName, labels |-> p.labels, series |-> p.series,
     kpis |-> k, preview |-> TablePreviewRows(grid)]

-----------------------------------------------------------------------------
(* The cost-per-message series of the charts, app.js 193-213 and 222-249 *)

\* getSeriesKey, lines 193-201: NoKey stands for its null
getSeriesKey(series, want) ==
    LET w == ToLowerCase(want)
    IN  IF FindEqualKey(series, w) # NoKey THEN FindEqualKey(series, w)
        ELSE FindIncludingKey(series, w)

\* getSeriesKey(a1) || getSeriesKey(a2) || ... over the aliases from the i-th on
RECURSIVE GetAnySeriesKey(_, _, _)
GetAnySeriesKey(series, aliases, i) ==
    IF i > Len(aliases) THEN NoKey
    ELSE IF getSeriesKey(series, aliases[i]) # NoKey
    THEN getSeriesKey(series, aliases[i])
    ELSE GetAnySeriesKey(series, aliases, i + 1)

\* arr[i] with i counted from 1: undefined past the end of the array
ItemAt(arr, i) == IF i \in 1..Len(arr) THEN arr[i] ELSE Undef

\* Number(v) for v a number, null or undefined
NumberOf(v) ==
    CASE v.k = "null" -> Num(0)
      [] v.k = "undef" -> NaN
      [] OTHER -> v

\* computeCostPerMessageSeries, lines 203-213
computeCostPerMessageSeries(spentArr, msgArr) ==
    [i \in 1..Max(Len(spentArr), Len(msgArr)) |->
        LET s == NumberOf(ItemAt(spentArr, i))
            m == NumberOf(ItemAt(msgArr, i))
        IN  IF ~IsFinite(s) \/ ~IsFinite(m) \/ m.n = 0 THEN Null
            ELSE JsDivide(s, m)]

\* renderCharts, lines 222-231 and 243-249: computedCPM for a payload's series
ComputedCpmOf(series) ==
    LET keySpent == GetAnySeriesKey(series, AliasesSpent, 1)
        keyMessages == GetAnySeriesKey(series, AliasesMessages, 1)
    IN  computeCostPerMessageSeries(ArrOf(series, keySpent), ArrOf(series, keyMessages))

-----------------------------------------------------------------------------
(* renderCharts and renderRecommendations, app.js 215-249 and 347-439 *)

AliasesCTR == <<<<"C", "T", "R">>,
                <<"L", "i", "n", "k", " ", "C", "T", "R">>,
                <<"C", "T", "R", " ", "(", "L", "i", "n", "k", ")">>>>
AliasesCPM == <<<<"C", "o", "s", "t", " ", "P", "e", "r", " ", "M", "e", "s", "s", "a", "g", "e">>,
                <<"C", "o", "s", "t", "/", "M", "e", "s", "s", "a", "g", "e">>,
                <<"C", "o", "s", "t", " ", "p", "e", "r", " ", "m", "e", "s", "s", "a", "g", "e">>>>

\* arr.map(Number)
MapNumber(arr) == [i \in 1..Len(arr) |-> NumberOf(arr[i])]

\* the JavaScript operator a < b on two finite numbers
JsLess(a, b) == a.n * b.d < b.n * a.d

\* x * 1.2 for a finite number x (the inputs of the model are numbers for
\* which the floating-point product is the exact one)
TimesOnePointTwo(x) == Frac(x.n * 6, x.d * 5)

\* v ?? d
NullishOr(v, d) == IF v.k \in {"null", "undef"} THEN d ELSE v

\* what addRec pushes: the icon stands for the level
Rec(level, title) == [level |-> level, title |-> title]

RecNotProfitable == Rec("high", "Campaign not profitable")
RecLowCtr == Rec("med", "Low CTR (weak hook)")
RecCacAboveTarget == Rec("high", "CAC above target")
RecCpmRising == Rec("med", "Cost per message rising")
RecHealthy == Rec("low", "Healthy signals")

\* lines 382-383
AvgCtrOf(ctrData) ==
    LET ctrNums == SelectSeq(MapNumber(ctrData), IsFinite)
    IN  IF Len(ctrNums) # 0 THEN JsDivide(ReduceAdd(ctrNums), Num(Len(ctrNums)))
        ELSE Null

\* an array, or the null that stands where no array is
ArrayOf(v) == [a |-> TRUE, v |-> v]
NoArray == [a |-> FALSE, v |-> <<>>]

\* lines 415-417
CpmArrOf(cpmFromSheet, computed) ==
    IF cpmFromSheet.a /\ Len(cpmFromSheet.v) >= 2 THEN ArrayOf(MapNumber(cpmFromSheet.v))
    ELSE IF Len(computed) >= 2 THEN ArrayOf(MapNumber(computed))
    ELSE NoArray

\* lines 419-432: whether the rising cost per message is reported
CpmRising(cpmArr) ==
    /\ cpmArr.a
    /\ LET nums == SelectSeq(cpmArr.v, IsFinite)
       IN  /\ Len(nums) >= 2
           /\ LET last == nums[Len(nums)]
                  prev == nums[Len(nums) - 1]
              IN  IsFinite(last) /\ IsFinite(prev)
                     /\ JsLess(TimesOnePointTwo(prev), last)

\* renderRecommendations, lines 373-439: kp is payload.kpis, target the text
\* of targetCacInput; the value is recs as line 460 reads it
renderRecommendations(kp, target, ctrData, cpmFromSheet, computed) ==
    LET roas == kp.kpis.roas
        cac == kp.kpis.cac
        targetCAC == StringToNumber(target)
        avgCTR == AvgCtrOf(ctrData)
        rules ==
            (IF IsFinite(roas) /\ JsLess(roas, Num(3))
             THEN <<RecNotProfitable>> ELSE <<>>)
            \o (IF IsFinite(avgCTR) /\ JsLess(avgCTR, Num(1))
                THEN <<RecLowCtr>> ELSE <<>>)
            \o (IF IsFinite(cac) /\ IsFinite(targetCAC) /\ JsLess(targetCAC, cac)
                THEN <<RecCacAboveTarget>> ELSE <<>>)
            \o (IF CpmRising(CpmArrOf(cpmFromSheet, computed))
                THEN <<RecCpmRising>> ELSE <<>>)
    IN  IF Len(rules) = 0 THEN <<RecHealthy>> ELSE rules

\* renderCharts, lines 233-248 and 370: the recs of a payload's series and kpis
RecsOf(series, kp, target) ==
    LET keyCTR == GetAnySeriesKey(series, AliasesCTR, 1)
        keyCPM == GetAnySeriesKey(series, AliasesCPM, 1)
    IN  renderRecommendations(kp, target, ArrOf(series, keyCTR),
                              IF keyCPM # NoKey THEN ArrayOf(ValueOf(series, keyCPM))
                              ELSE NoArray,
                              ComputedCpmOf(series))

\* charts as line 30 leaves it, and as renderCharts fills it, lines 243-245,
\* 255-368: the data of the five datasets
NoCharts == [drawn |-> FALSE, spent |-> <<>>, revenue |-> <<>>, messages |-> <<>>,
             cpm |-> <<>>, pie |-> <<>>]

ChartsOf(series, kp) ==
    [drawn |-> TRUE,
     spent |-> ArrOf(series, GetAnySeriesKey(series, AliasesSpent, 1)),
     revenue |-> ArrOf(series, GetAnySeriesKey(series, AliasesRevenue, 1)),
     messages |-> ArrOf(series, GetAnySeriesKey(series, AliasesMessages, 1)),
     cpm |-> ComputedCpmOf(series),
     pie |-> <<NullishOr(kp.totals.spent, Num(0)),
               NullishOr(kp.totals.revenue, Num(0))>>]

\* the page before any upload: lines 28-36 and the empty elements
NoPayload == [NoRes EXCEPT !.status = -1]
NoResponse == [ok |-> FALSE, body |-> NoPayload]

-----------------------------------------------------------------------------
(* The variables of a call that is not being made *)

CellIdle == cell = NullCell /\ number = Undef
ParseIdle == aoa = <<>> /\ headerRowIndex = -1 /\ parsed = NotParsed
KpiIdle == resolved = NoKeys /\ kpis = NoKpis
HandlerIdle == req = NoReq /\ upload = "none" /\ res = NoRes /\ sent = 0
ChartIdle == computedCPM = <<>> /\ targetCac = <<>> /\ recs = <<>>
PageIdle ==
    /\ disabled = FALSE
    /\ statusMsg = "none"
    /\ inflight = 0
    /\ response = NoResponse
    /\ latestPayload = NoPayload
    /\ cards = NoKpis
    /\ charts = NoCharts
    /\ table = <<>>
RunIdle == grids = <<>> /\ runs = <<>>

-----------------------------------------------------------------------------
(* Bounds and inputs of the parseOverviewStyle specification *)

MaxBodyRows == 3
MaxPaddedRows == 2

cCAC == <<"C", "A", "C">>

\* rows a sheet can hold: candidate header rows ...
RowDates == <<StrCell(<<"M", "o", "n", "t", "h">>),
              DateCell(2024, 1), DateCell(2024, 2), DateCell(2024, 3)>>
RowDateInColumn0 == <<DateCell(2024, 1), DateCell(2024, 2),
                      StrCell(<<"F", "Y", " ", "2", "0", "2", "4">>),
                      StrCell(<<"x", "2", "0", "2", "4">>),
                      StrCell(<<"2", "0", "2", "4", "5">>)>>
RowMixed == <<NullCell, NumCell(45292),
              StrCell(<<"F", "e", "b", "-", "2", "0", "2", "4">>),
              DateCell(2023, 12), StrCell(<<" ", "T", "o", "t", "a", "l">>)>>
RowSerialEdges == <<StrCell(<<"x">>), NumCell(SerialLow), NumCell(SerialHigh),
                    NumCell(SerialLow + 1), NumCell(SerialHigh - 1)>>
\* ... and metric rows
RowCac == <<StrCell(cCAC), NumCell(1000), NumCell(0), NumCell(1200)>>
RowCacBlank == <<StrCell(<<" ">> \o cCAC \o <<" ">>),
                 StrCell(<<"-">>), StrCell(<<>>), NullCell>>
RowCacShort == <<StrCell(cCAC), StrCell(<<"$", "1", ",", "2", "0", "0">>),
                 StrCell(<<"n", "/", "a">>)>>
RowNoName == <<StrCell(<<" ", " ">>), NumCell(5), NumCell(6), NumCell(7)>>
RowLong == <<NumCell(7), NumCell(5), StrCell(<<"emdash">>), NumCell(-3),
             NumCell(8), NumCell(9)>>
RowEmpty == <<>>

BodyRows ==
    {RowDates, RowDateInColumn0, RowMixed, RowSerialEdges,
     RowCac, RowCacBlank, RowCacShort, RowNoName, RowLong, RowEmpty}

RECURSIVE SeqsUpTo(_, _)
SeqsUpTo(S, n) ==
    IF n = 0 THEN {<<>>}
    ELSE LET shorter == SeqsUpTo(S, n - 1)
         IN  shorter \cup {Append(s, x) : s \in shorter, x \in S}

\* the blank rows above the table: none, or enough of them to put the first
\* row of the table at the last scanned index or just past it
PadCounts == {0, HeaderScanRows - 1, HeaderScanRows}

BlankRows(k) == [i \in 1..k |-> <<>>]

GridInputs ==
    SeqsUpTo(BodyRows, MaxBodyRows)
        \cup {BlankRows(k) \o body :
                 k \in PadCounts, body \in SeqsUpTo(BodyRows, MaxPaddedRows)}

InitParse ==
    /\ pc = "parse"
    /\ aoa \in GridInputs
    /\ headerRowIndex = -1
    /\ parsed = NotParsed
    /\ CellIdle
    /\ KpiIdle
    /\ HandlerIdle
    /\ ChartIdle
    /\ PageIdle
    /\ RunIdle

\* one call parseOverviewStyle(aoa)
CallParse ==
    /\ pc = "parse"
    /\ headerRowIndex' = ScanHeader(aoa, 0)
    /\ parsed' = parseOverviewStyle(aoa)
    /\ pc' = "parsed"
    /\ UNCHANGED <<cellVars, aoa, kpiVars, handlerVars, chartVars, pageVars, runVars>>

NextParse == CallParse

SpecParse == InitParse /\ [][NextParse]_vars

-----------------------------------------------------------------------------
(* C1 *)

\* C1: whenever parseOverviewStyle succeeds, every series has as many values
\* as there are labels, also when a metric row is shorter or longer than the
\* header row.
C1_SeriesAlignedWithLabels ==
    (pc = "parsed" /\ parsed.st = "ok") =>
        \A i \in 1..Len(parsed.series) :
            Len(parsed.series[i].v) = Len(parsed.labels)

-----------------------------------------------------------------------------
(* C5 *)

\* the number of date-like cells of a row at column index 1 and above
DateLikeFromColumn1(row) ==
    Cardinality({i \in 2..Len(row) : IsDateLike(row[i])})

\* the scanned rows that qualify as header
QualifyingRows(grid) ==
    {r \in 0..(Min(60, Len(grid)) - 1) : DateLikeFromColumn1(RowAt(grid, r)) >= 3}

\* C5: the header is the smallest row index below min(60, rowCount) whose
\* cells from column 1 on hold at least 3 date-like cells, and the parse
\* returns null exactly when no such row exists among the first 60.
C5_HeaderIsFirstQualifyingRow ==
    (pc = "parsed") =>
        /\ (parsed.st = "null") <=> (QualifyingRows(aoa) = {})
        /\ (parsed.st = "ok") <=> (QualifyingRows(aoa) # {})
        /\ QualifyingRows(aoa) # {} =>
              /\ headerRowIndex \in QualifyingRows(aoa)
              /\ \A q \in QualifyingRows(aoa) : headerRowIndex <= q

\* the parse has returned null for a grid whose only qualifying rows lie at
\* index 60 and beyond
C5_Witness ==
    /\ pc = "parsed"
    /\ parsed.st = "null"
    /\ Len(aoa) > 60
    /\ DateLikeFromColumn1(RowAt(aoa, 60)) >= 3

-----------------------------------------------------------------------------
(* C10 *)

\* entry e of the series is what the row at index r of the grid yields
EntryFromRow(e, grid, r) ==
    LET row == RowAt(grid, r)
    IN  /\ row # <<>>
        /\ Trim(ToStr(row[1])) = e.k
        /\ Len(e.v) = Len(row) - 1
        /\ \A j \in 1..Len(e.v) : e.v[j] = toNumber(row[j + 1])

\* C10: every series entry comes from a row strictly below the header with
\* a non-empty trimmed name in column 0, holds at least one finite number,
\* and holds nothing but finite numbers and nulls.
C10_SeriesEntriesWellFormed ==
    (pc = "parsed" /\ parsed.st = "ok") =>
        \A i \in 1..Len(parsed.series) :
            LET e == parsed.series[i]
            IN  /\ e.k # <<>>
                /\ \E r \in (headerRowIndex + 1)..(Len(aoa) - 1) : EntryFromRow(e, aoa, r)
                /\ \E j \in 1..Len(e.v) : e.v[j].k = "num"
                /\ \A j \in 1..Len(e.v) : e.v[j].k \in {"num", "null"}

\* a parse that stored a row holding an unparsable string (now null) and
\* dropped a named row below the header whose values are all null
C10_Witness ==
    /\ pc = "parsed"
    /\ parsed.st = "ok"
    /\ \E i \in 1..Len(parsed.series) :
          \E j \in 1..Len(parsed.series[i].v) : parsed.series[i].v[j] = Null
    /\ \E r \in (headerRowIndex + 1)..(Len(aoa) - 1) :
          /\ RowAt(aoa, r) = RowCacBlank
          /\ \A i \in 1..Len(parsed.series) : ~EntryFromRow(parsed.series[i], aoa, r)

-----------------------------------------------------------------------------
(* C12 *)

\* the trimmed text of column 0 of the row at index r
NameAt(grid, r) ==
    IF RowAt(grid, r) = <<>> THEN <<>> ELSE Trim(ToStr(RowAt(grid, r)[1]))

\* the rows below the header named k that hold at least one finite value
FiniteRowsNamed(grid, header, k) ==
    {r \in (header + 1)..(Len(grid) - 1) :
        /\ NameAt(grid, r) = k
        /\ \E j \in 2..Len(RowAt(grid, r)) : toNumber(RowAt(grid, r)[j]).k = "num"}

\* C12: when a trimmed metric name appears in several rows below the header,
\* the series holds for it the values of the last of those rows that has a
\* finite value; a later row of that name whose values are all null neither
\* overwrites nor removes the entry.
C12_LastFiniteRowWins ==
    (pc = "parsed" /\ parsed.st = "ok") =>
        \A r \in (headerRowIndex + 1)..(Len(aoa) - 1) :
            LET k == NameAt(aoa, r)
                rows == FiniteRowsNamed(aoa, headerRowIndex, k)
            IN  (k # <<>> /\ rows # {}) =>
                    /\ HasKey(parsed.series, k)
                    /\ EntryFromRow([k |-> k, v |-> ValueOf(parsed.series, k)], aoa,
                                    CHOOSE last \in rows : \A q \in rows : q <= last)

\* a CAC row with values, then a CAC row (its name padded with spaces) whose
\* values are all null: the series keeps the values of the first
C12_Witness ==
    /\ pc = "parsed"
    /\ parsed.st = "ok"
    /\ \E r \in (headerRowIndex + 1)..(Len(aoa) - 2) :
          /\ RowAt(aoa, r) = RowCac
          /\ RowAt(aoa, r + 1) = RowCacBlank
    /\ HasKey(parsed.series, cCAC)
    /\ ValueOf(parsed.series, cCAC) = <<Num(1000), Num(0), Num(1200)>>


-----------------------------------------------------------------------------
(* Bounds and inputs of the header detection on serial numbers *)

MaxSerialCells == 3

\* day serials at and next to both ends of the window
SerialValues == {19999, 20000, 20001, 59999, 60000, 60001}

\* sheets of one row: a text in column 0, then up to MaxSerialCells numbers
SerialGrids ==
    {<<<<StrCell(<<"M", "o", "n", "t", "h">>)>> \o [i \in 1..Len(ns) |-> NumCell(ns[i])]>> :
        ns \in SeqsUpTo(SerialValues, MaxSerialCells)}

InitSerial ==
    /\ pc = "parse"
    /\ aoa \in SerialGrids
    /\ headerRowIndex = -1
    /\ parsed = NotParsed
    /\ CellIdle
    /\ KpiIdle
    /\ HandlerIdle
    /\ ChartIdle
    /\ PageIdle
    /\ RunIdle

SpecSerial == InitSerial /\ [][NextParse]_vars

-----------------------------------------------------------------------------
(* C13 *)

\* how many cells of a row, from column 1 on, are numbers in lo..hi
NumbersFrom(row, lo, hi) ==
    Cardinality({i \in 2..Len(row) :
                    row[i].t = "num" /\ lo <= row[i].n /\ row[i].n <= hi})

\* C13 as stated: a number cell counts as date-like exactly when
\* 20000 <= n < 60000, so a row of numbers is taken as header exactly when
\* at least 3 of its cells from column 1 on lie in 20000..59999.
C13_SerialRangeClosedLow ==
    (pc = "parsed") =>
        ((parsed.st = "ok") <=> (NumbersFrom(aoa[1], 20000, 59999) >= 3))

\* C13 as amended: a number cell counts as date-like exactly when
\* 20000 < n < 60000; neither 20000 nor 60000 counts, so a row of numbers
\* is taken as header exactly when at least 3 of its cells from column 1 on
\* lie in 20001..59999.
C13_SerialRangeOpen ==
    (pc = "parsed") =>
        ((parsed.st = "ok") <=> (NumbersFrom(aoa[1], 20001, 59999) >= 3))

\* the row 20000, 20001, 59999 is not a header: 20000 does not count
C13_Witness ==
    /\ pc = "parsed"
    /\ aoa[1] = <<StrCell(<<"M", "o", "n", "t", "h">>),
                  NumCell(20000), NumCell(20001), NumCell(59999)>>
    /\ parsed.st = "null"
    /\ headerRowIndex = -1


-----------------------------------------------------------------------------
(* Bounds and inputs of the toNumber specification *)

MaxStrLen == 3

CellAlphabet == {" ", "tab", "-", "emdash", "0", "7", ",", "$", "peso", "a"}

RECURSIVE StringsUpTo(_, _)
StringsUpTo(alphabet, n) ==
    IF n = 0 THEN {<<>>}
    ELSE LET shorter == StringsUpTo(alphabet, n - 1)
         IN  shorter \cup {Append(s, c) : s \in shorter, c \in alphabet}

CellInputs ==
    {NullCell}
        \cup {NumCell(n) : n \in {-7, 0, 7, 1200}}
        \cup {DateCell(2024, m) : m \in {1, 12}}
        \cup {StrCell(s) : s \in StringsUpTo(CellAlphabet, MaxStrLen)}


InitCell ==
    /\ pc = "toNumber"
    /\ cell \in CellInputs
    /\ number = Undef
    /\ ParseIdle
    /\ KpiIdle
    /\ HandlerIdle
    /\ ChartIdle
    /\ PageIdle
    /\ RunIdle

\* one call toNumber(cell)
CallToNumber ==
    /\ pc = "toNumber"
    /\ number' = toNumber(cell)
    /\ pc' = "returned"
    /\ UNCHANGED <<cell, parseVars, kpiVars, handlerVars, chartVars, pageVars, runVars>>

NextCell == CallToNumber

SpecCell == InitCell /\ [][NextCell]_vars

-----------------------------------------------------------------------------
(* C2 *)

\* the cells C2 is about: null/undefined, and strings that are empty, all
\* white space, or a bare hyphen or em-dash with or without white space round
IsBlankPlaceholder(c) ==
    \/ c.t = "null"
    \/ /\ c.t = "str"
       /\ \A i \in 1..Len(c.s) : c.s[i] \in WhiteSpace \cup {"-", "emdash"}
       /\ Cardinality({i \in 1..Len(c.s) : c.s[i] \in {"-", "emdash"}}) <= 1

\* C2: toNumber returns null, never 0, for every cell that is null or
\* undefined, an empty or whitespace-only string, or a bare hyphen or em-dash
\* placeholder with or without surrounding white space.
C2_BlankIsNull ==
    (pc = "returned" /\ IsBlankPlaceholder(cell)) => (number = Null /\ number # Num(0))

\* toNumber has returned for a hyphen placeholder padded with white space
C2_Witness ==
    /\ pc = "returned"
    /\ cell = StrCell(<<" ", "-", " ">>)
    /\ number = Null

-----------------------------------------------------------------------------
(* Bounds and inputs of the computeKPIsFromSeries specification *)

MaxMonths == 2
MaxCacMonths == 3
MaxKeys == 3

\* non-empty value sequences of at most n values with a finite one among
\* them: what a row stored by parseOverviewStyle holds
ValueSeqs(values, n) == {s \in SeqsUpTo(values, n) : SomeFinite(s)}

Entry(k, v) == [k |-> k, v |-> v]

\* a series of the named rows that are present, in sheet order
SeriesOf(rows) == SelectSeq(rows, LAMBDA e : e.v # <<>>)

kAdSpent == <<"A", "d", " ", "S", "p", "e", "n", "t">>
kMessages == <<"M", "e", "s", "s", "a", "g", "e", "s">>
kRevenue == <<"R", "e", "v", "e", "n", "u", "e">>
kCustomers == <<"C", "u", "s", "t", "o", "m", "e", "r", "s">>

\* CAC rows of every shape beside a few spend and customer rows
CacSeriesInputs ==
    {SeriesOf(<<Entry(kAdSpent, s), Entry(kCustomers, c), Entry(cCAC, a)>>) :
        s \in {<<>>, <<Num(12)>>, <<Num(6), Num(-6)>>},
        c \in {<<>>, <<Num(4)>>, <<Num(0), Null>>},
        a \in {<<>>, <<Num(-5)>>, <<Null, Num(-5), Num(1000)>>}
                 \cup ValueSeqs({Null, Num(0), Num(1000), Num(1200)}, MaxCacMonths)}

TotalsValues == {Null, Num(0), Num(6)}

\* spend beside messages or beside revenue, and each metric alone
TotalsSeriesInputs ==
    {SeriesOf(<<Entry(kAdSpent, s), Entry(kMessages, m)>>) :
        s \in {<<>>} \cup ValueSeqs(TotalsValues, MaxMonths),
        m \in {<<>>} \cup ValueSeqs(TotalsValues, MaxMonths)}
    \cup
    {SeriesOf(<<Entry(kRevenue, r), Entry(kAdSpent, s)>>) :
        s \in {<<>>} \cup ValueSeqs(TotalsValues, MaxMonths),
        r \in ValueSeqs(TotalsValues, MaxMonths)}
    \cup
    {SeriesOf(<<Entry(kCustomers, c), Entry(kAdSpent, <<Num(6), Num(-6)>>)>>) :
        c \in ValueSeqs(TotalsValues, MaxMonths)}

\* row names: exact aliases, names that contain an alias, and one that
\* matches nothing
KeyNames ==
    <<<<"A", "d", " ", "S", "p", "e", "n", "t">>,
      <<"T", "o", "t", "a", "l", " ", "A", "d", " ", "S", "p", "e", "n", "t", " ", "x">>,
      <<"A", "M", "O", "U", "N", "T", " ", "S", "P", "E", "N", "T">>,
      <<"M", "e", "s", "s", "a", "g", "e", "s">>,
      <<"N", "o", ".", " ", "o", "f", " ", "M", "e", "s", "s", "a", "g", "e", "s", " ", "S", "e", "n", "t">>,
      <<"C", "A", "C">>,
      <<"T", "a", "r", "g", "e", "t", " ", "c", "a", "c">>,
      <<"R", "e", "v", "e", "n", "u", "e">>,
      <<"c", "u", "s", "t", "o", "m", "e", "r", "s">>,
      <<"N", "o", "t", "e", "s">>>>

IsInjective(s) == \A i, j \in 1..Len(s) : s[i] = s[j] => i = j

\* up to MaxKeys distinct row names in any order, the i-th name of KeyNames
\* holding the single value i
NamedSeriesInputs ==
    {[j \in 1..Len(idx) |-> Entry(KeyNames[idx[j]], <<Num(idx[j])>>)] :
        idx \in {s \in SeqsUpTo(1..Len(KeyNames), MaxKeys) : IsInjective(s)}}

SeriesInputs == CacSeriesInputs \cup TotalsSeriesInputs \cup NamedSeriesInputs

\* the labels of a header of two month columns
MonthLabels == [i \in 1..2 |-> MonthYearLabel(2024, i)]

InitKpi ==
    /\ pc = "compute"
    /\ aoa = <<>>
    /\ headerRowIndex = 0
    /\ parsed \in {[st |-> "ok", labels |-> MonthLabels, series |-> s] :
                     s \in SeriesInputs}
    /\ CellIdle
    /\ KpiIdle
    /\ HandlerIdle
    /\ ChartIdle
    /\ PageIdle
    /\ RunIdle

\* one call computeKPIsFromSeries(labels, series)
CallCompute ==
    /\ pc = "compute"
    /\ resolved' = ResolveKeys(parsed.series)
    /\ kpis' = computeKPIsFromSeries(parsed.labels, parsed.series)
    /\ pc' = "computed"
    /\ UNCHANGED <<cellVars, parseVars, handlerVars, chartVars, pageVars, runVars>>

NextKpi == CallCompute

SpecKpi == InitKpi /\ [][NextKpi]_vars

-----------------------------------------------------------------------------
(* C3 *)

\* the finite, strictly positive values of a row, in order
PositiveValues(arr) == SelectSeq(arr, LAMBDA v : v.k = "num" /\ v.n > 0)

RECURSIVE SumOfNumerators(_)
SumOfNumerators(arr) ==
    IF arr = <<>> THEN 0 ELSE arr[1].n + SumOfNumerators(Tail(arr))

\* the arithmetic mean of a non-empty sequence of integers
MeanOf(arr) == Frac(SumOfNumerators(arr), Len(arr))

\* totals.spent / totals.customers where that is defined, else null
BlendedCac(k) ==
    IF k.totals.spent.k = "num" /\ k.totals.customers.k = "num"
       /\ k.totals.customers.n # 0
    THEN Frac(k.totals.spent.n * k.totals.customers.d,
              k.totals.spent.d * k.totals.customers.n)
    ELSE Null

\* C3: kpis.cac is the mean of the finite, strictly positive values of the
\* resolved CAC row whenever the row exists and has such a value, and only
\* otherwise totals.spent / totals.customers, or null where that is undefined.
C3_CacPrefersRowAverage ==
    (pc = "computed") =>
        LET pos == PositiveValues(ArrOf(parsed.series, resolved.cac))
        IN  IF resolved.cac # NoKey /\ pos # <<>>
            THEN kpis.kpis.cac = MeanOf(pos)
            ELSE kpis.kpis.cac = BlendedCac(kpis)

\* the CAC row [1000, 0, 1200] beside spend 12 and customers 4 gives 1100
C3_Witness ==
    /\ pc = "computed"
    /\ HasKey(parsed.series, cCAC)
    /\ ValueOf(parsed.series, cCAC) = <<Num(1000), Num(0), Num(1200)>>
    /\ kpis.totals.spent = Num(12)
    /\ kpis.totals.customers = Num(4)
    /\ kpis.kpis.cac = Num(1100)

-----------------------------------------------------------------------------
(* C4 *)

MetricAliases ==
    [spent |-> AliasesSpent, messages |-> AliasesMessages,
     revenue |-> AliasesRevenue, customers |-> AliasesCustomers,
     cac |-> AliasesCAC]

Metrics == {"spent", "messages", "revenue", "customers", "cac"}

EqualsAlias(k, a) == ToLowerCase(k) = ToLowerCase(a)
ContainsAlias(k, a) == Includes(ToLowerCase(k), ToLowerCase(a))

KeysOf(series) == {series[i].k : i \in 1..Len(series)}

ExactKeys(series, aliases) ==
    {k \in KeysOf(series) : \E i \in 1..Len(aliases) : EqualsAlias(k, aliases[i])}
SubstringKeys(series, aliases) ==
    {k \in KeysOf(series) : \E i \in 1..Len(aliases) : ContainsAlias(k, aliases[i])}

\* C4 as stated: the resolved key equals an alias whenever some key equals
\* any alias of the metric, is a key containing an alias only when none
\* does, and is absent when no key contains an alias.
C4_ExactBeforeSubstringOverAllAliases ==
    (pc = "computed") =>
        \A m \in Metrics :
            LET exact == ExactKeys(parsed.series, MetricAliases[m])
                sub == SubstringKeys(parsed.series, MetricAliases[m])
            IN  /\ exact # {} => resolved[m] \in exact
                /\ (exact = {} /\ sub # {}) => resolved[m] \in sub
                /\ sub = {} => resolved[m] = NoKey

\* the first key of the series, in key order, among the set ks
FirstOf(series, ks) ==
    series[CHOOSE i \in 1..Len(series) :
               /\ series[i].k \in ks
               /\ \A j \in 1..(i - 1) : series[j].k \notin ks].k

\* C4 as amended: the aliases are tried in their listed order and the first
\* alias that some key contains decides; for that alias the first key equal
\* to it is taken, or when no key equals it the first key containing it; the
\* result is absent exactly when no key contains any alias.
C4_ExactBeforeSubstringPerAlias ==
    (pc = "computed") =>
        \A m \in Metrics :
            LET aliases == MetricAliases[m]
                keys == KeysOf(parsed.series)
                matching == {i \in 1..Len(aliases) :
                                \E k \in keys : ContainsAlias(k, aliases[i])}
            IN  IF matching = {} THEN resolved[m] = NoKey
                ELSE LET a == aliases[CHOOSE i \in matching :
                                          \A j \in matching : i <= j]
                         exact == {k \in keys : EqualsAlias(k, a)}
                         sub == {k \in keys : ContainsAlias(k, a)}
                     IN  resolved[m] =
                             FirstOf(parsed.series, IF exact # {} THEN exact ELSE sub)

\* a key equal to the alias "Ad Spent" is passed over for a key that only
\* contains the earlier alias "Total Ad Spent"
C4_Witness ==
    /\ pc = "computed"
    /\ HasKey(parsed.series, KeyNames[1])
    /\ resolved.spent = KeyNames[2]
    /\ kpis.totals.spent = Num(2)

-----------------------------------------------------------------------------
(* C6 *)

NonNull(arr) == SelectSeq(arr, LAMBDA v : v # Null)

TotalMetrics == {"spent", "messages", "revenue", "customers"}

\* C6: totals.X is the sum of the non-null values of the resolved series and
\* null when X is unresolved; averagesPerMonth.X is totals.X over the number
\* of non-null values (at least 1) and null exactly when totals.X is null.
C6_TotalsAndAverages ==
    (pc = "computed") =>
        \A m \in TotalMetrics :
            LET arr == NonNull(ArrOf(parsed.series, resolved[m]))
                count == IF Len(arr) < 1 THEN 1 ELSE Len(arr)
            IN  /\ resolved[m] = NoKey => kpis.totals[m] = Null
                /\ resolved[m] # NoKey => kpis.totals[m] = Num(SumOfNumerators(arr))
                /\ (kpis.averagesPerMonth[m] = Null) <=> (kpis.totals[m] = Null)
                /\ kpis.totals[m] # Null =>
                       kpis.averagesPerMonth[m] = Frac(kpis.totals[m].n, count)

\* spend reported in 1 of 2 months: the average is over 1, not over the
\* 2 labels
C6_Witness ==
    /\ pc = "computed"
    /\ Len(parsed.labels) = 2
    /\ resolved.spent # NoKey
    /\ ValueOf(parsed.series, resolved.spent) = <<Null, Num(6)>>
    /\ kpis.totals.spent = Num(6)
    /\ kpis.averagesPerMonth.spent = Num(6)

-----------------------------------------------------------------------------
(* C7 *)

NullOrFinite(v) == v.k \in {"null", "num"}

\* C7: costPerMessage and roas are each null or a finite number;
\* costPerMessage is null when spend or messages is unresolved or the
\* messages total is 0, roas when revenue or spend is unresolved or the spend
\* total is 0.
C7_DivisionGuards ==
    (pc = "computed") =>
        /\ NullOrFinite(kpis.kpis.costPerMessage)
        /\ NullOrFinite(kpis.kpis.roas)
        /\ (resolved.spent = NoKey \/ resolved.messages = NoKey
                \/ kpis.totals.messages = Num(0))
              => kpis.kpis.costPerMessage = Null
        /\ (resolved.revenue = NoKey \/ resolved.spent = NoKey
                \/ kpis.totals.spent = Num(0))
              => kpis.kpis.roas = Null

\* spend 6 over a messages total of 0: costPerMessage is null
C7_Witness ==
    /\ pc = "computed"
    /\ kpis.totals.spent = Num(6)
    /\ kpis.totals.messages = Num(0)
    /\ kpis.kpis.costPerMessage = Null

-----------------------------------------------------------------------------
(* Bounds and inputs of the upload handler specification *)

MaxUploadRows == 2

\* the sheets uploaded: a table of at most MaxUploadRows rows under no blank
\* rows, or under enough of them to pass the preview and the header scan
UploadGrids ==
    {BlankRows(k) \o body :
        k \in PadCounts, body \in SeqsUpTo(BodyRows, MaxUploadRows)}

cSheet1 == <<"S", "h", "e", "e", "t", "1">>
cOverviewSheet == <<"O", "v", "e", "r", "v", "i", "e", "w">>

\* a workbook of one sheet, or of a first sheet and an overview sheet
Workbooks ==
    {<<[name |-> cSheet1, grid |-> g]>> : g \in UploadGrids}
        \cup {<<[name |-> cSheet1, grid |-> <<RowDates, RowCac>>],
                [name |-> cOverviewSheet, grid |-> g]>> : g \in UploadGrids}

Requests ==
    {NoReq}
        \cup {[hasFile |-> TRUE, readable |-> FALSE, workbook |-> <<>>]}
        \cup {[hasFile |-> TRUE, readable |-> TRUE, workbook |-> w] : w \in Workbooks}

InitUpload ==
    /\ pc = "idle"
    /\ CellIdle
    /\ ParseIdle
    /\ KpiIdle
    /\ HandlerIdle
    /\ ChartIdle
    /\ PageIdle
    /\ RunIdle

\* a POST /api/upload reaches the handler; multer has stored its file, if any
Request ==
    /\ pc = "idle"
    /\ req' \in Requests
    /\ upload' = IF req'.hasFile THEN "stored" ELSE "none"
    /\ res' = NoRes
    /\ sent' = 0
    /\ pc' = "handler"
    /\ UNCHANGED <<cellVars, parseVars, kpiVars, chartVars, pageVars, runVars>>

\* line 824: no file, 400
RespondNoFile ==
    /\ pc = "handler"
    /\ ~req.hasFile
    /\ res' = ErrorRes(400)
    /\ sent' = sent + 1
    /\ pc' = "responded"
    /\ UNCHANGED <<cellVars, parseVars, kpiVars, req, upload, chartVars, pageVars, runVars>>

\* lines 826-832 throw (the file is no workbook): the catch answers 500
RespondServerError ==
    /\ pc = "handler"
    /\ req.hasFile
    /\ ~req.readable
    /\ res' = ErrorRes(500)
    /\ sent' = sent + 1
    /\ pc' = "responded"
    /\ UNCHANGED <<cellVars, parseVars, kpiVars, req, upload, chartVars, pageVars, runVars>>

\* lines 826-845: the sheet is read and parsed, the unlink issued, and the
\* parse being null the answer is 422 with the preview
RespondNotRecognized ==
    /\ pc = "handler"
    /\ req.hasFile
    /\ req.readable
    /\ LET sheet == req.workbook[PickSheet(req.workbook)]
       IN  /\ parseOverviewStyle(sheet.grid) = ParsedNull
           /\ aoa' = sheet.grid
           /\ headerRowIndex' = ScanHeader(sheet.grid, 0)
           /\ parsed' = parseOverviewStyle(sheet.grid)
           /\ upload' = "unlinking"
           /\ res' = NotRecognizedRes(sheet.name, sheet.grid)
    /\ sent' = sent + 1
    /\ pc' = "responded"
    /\ UNCHANGED <<cellVars, kpiVars, req, chartVars, pageVars, runVars>>

\* lines 826-850: the sheet is read and parsed, the unlink issued, the KPIs
\* computed and the payload sent
RespondSuccess ==
    /\ pc = "handler"
    /\ req.hasFile
    /\ req.readable
    /\ LET sheet == req.workbook[PickSheet(req.workbook)]
           p == parseOverviewStyle(sheet.grid)
       IN  /\ p # ParsedNull
           /\ aoa' = sheet.grid
           /\ headerRowIndex' = ScanHeader(sheet.grid, 0)
           /\ parsed' = p
           /\ upload' = "unlinking"
           /\ resolved' = ResolveKeys(p.series)
           /\ kpis' = computeKPIsFromSeries(p.labels, p.series)
           /\ res' = SuccessRes(sheet.name, sheet.grid, p,
                                computeKPIsFromSeries(p.labels, p.series))
    /\ sent' = sent + 1
    /\ pc' = "responded"
    /\ UNCHANGED <<cellVars, req, chartVars, pageVars, runVars>>

\* the handler has returned: its locals are gone and the next request can come
Return ==
    /\ pc = "responded"
    /\ pc' = "idle"
    /\ aoa' = <<>>
    /\ headerRowIndex' = -1
    /\ parsed' = NotParsed
    /\ resolved' = NoKeys
    /\ kpis' = NoKpis
    /\ req' = NoReq
    /\ upload' = "none"
    /\ res' = NoRes
    /\ sent' = 0
    /\ UNCHANGED <<cellVars, chartVars, pageVars, runVars>>

NextUpload ==
    \/ Request
    \/ RespondNoFile
    \/ RespondServerError
    \/ RespondNotRecognized
    \/ RespondSuccess
    \/ Return

SpecUpload == InitUpload /\ [][NextUpload]_vars

-----------------------------------------------------------------------------
(* C8 *)

\* the first n elements of s, in order
FirstRows(s, n) == [i \in 1..(IF Len(s) < n THEN Len(s) ELSE n) |-> s[i]]

PayloadFields == {"labels", "series", "kpis"}

\* C8: when header detection fails the answer is an error, without labels,
\* series or kpis and without a success status, that carries the first 50
\* rows of the grid at most, in order; when it succeeds the answer is the
\* success payload with labels, series and kpis; one response per request.
C8_OneOutcomePerRequest ==
    /\ sent <= 1
    /\ (pc = "responded") => (sent = 1)
    /\ (pc = "responded" /\ req.hasFile /\ req.readable) =>
          IF QualifyingRows(aoa) = {}
          THEN /\ "error" \in res.fields
               /\ res.fields \cap PayloadFields = {}
               /\ res.status \notin 200..299
               /\ "tablePreview" \in res.fields
               /\ Len(res.preview) <= 50
               /\ res.preview = FirstRows(aoa, 50)
          ELSE /\ "error" \notin res.fields
               /\ PayloadFields \subseteq res.fields
               /\ res.status = 200
               /\ res.labels = parsed.labels
               /\ res.series = parsed.series
               /\ res.kpis = kpis

\* a sheet of more than 50 rows whose header is not found: 422 with a
\* preview of 50 rows
C8_Witness ==
    /\ pc = "responded"
    /\ QualifyingRows(aoa) = {}
    /\ Len(aoa) > 50
    /\ res.status = 422
    /\ Len(res.preview) = 50

-----------------------------------------------------------------------------
(* C14 *)

\* C14: for every request that carries a file, the deletion of the stored
\* upload has been issued by the time the response is sent, whatever the
\* outcome: success, format not recognized, or an exception while the
\* workbook is read or parsed.
C14_UnlinkIssuedBeforeResponse ==
    (sent >= 1 /\ req.hasFile) => upload = "unlinking"


-----------------------------------------------------------------------------
(* Bounds and inputs of the renderCharts specification *)

ChartValues == {Null, Num(0), Num(6), Num(-3)}

\* payloads whose series hold a spend row, a messages row, both or neither
ChartSeriesInputs ==
    {SeriesOf(<<Entry(kAdSpent, s), Entry(kMessages, m)>>) :
        s \in {<<>>} \cup ValueSeqs(ChartValues, MaxMonths),
        m \in {<<>>} \cup ValueSeqs(ChartValues, MaxMonths)}

InitCharts ==
    /\ pc = "render"
    /\ aoa = <<>>
    /\ headerRowIndex = 0
    /\ parsed \in {[st |-> "ok", labels |-> MonthLabels, series |-> s] :
                     s \in ChartSeriesInputs}
    /\ CellIdle
    /\ KpiIdle
    /\ HandlerIdle
    /\ ChartIdle
    /\ PageIdle
    /\ RunIdle

\* renderCharts(payload) as far as its local computedCPM
CallRenderCharts ==
    /\ pc = "render"
    /\ computedCPM' = ComputedCpmOf(parsed.series)
    /\ recs' = RecsOf(parsed.series, kpis, targetCac)
    /\ UNCHANGED targetCac
    /\ pc' = "rendered"
    /\ UNCHANGED <<cellVars, parseVars, kpiVars, handlerVars, pageVars, runVars>>

NextCharts == CallRenderCharts

SpecCharts == InitCharts /\ [][NextCharts]_vars

-----------------------------------------------------------------------------
(* C9 *)

\* the row of the payload named k, empty when there is none
RowNamed(series, k) == IF HasKey(series, k) THEN ValueOf(series, k) ELSE <<>>

\* C9: at each index the per-month cost-per-message series holds
\* spent[i] / messages[i] when both are finite numbers and messages[i] is not
\* 0, and null otherwise; a null spent[i] gives null, not 0.
C9_CostPerMessagePerMonth ==
    (pc = "rendered") =>
        LET spent == RowNamed(parsed.series, kAdSpent)
            messages == RowNamed(parsed.series, kMessages)
        IN  \A i \in 1..Len(computedCPM) :
                LET s == ItemAt(spent, i)
                    m == ItemAt(messages, i)
                IN  IF s.k = "num" /\ m.k = "num" /\ m.n # 0
                    THEN computedCPM[i] = Frac(s.n * m.d, s.d * m.n)
                    ELSE computedCPM[i] = Null

-----------------------------------------------------------------------------
(* Bounds and inputs of the repeated-extraction specification *)

MaxRuns == 3
MaxExtractRows == 2

RowSpent == <<StrCell(kAdSpent), NumCell(6), NullCell, StrCell(<<"$", "1", ",", "2", "0", "0">>)>>
RowMessages == <<StrCell(kMessages), NumCell(3), NumCell(0), NumCell(7)>>

ExtractRows == {RowSpent, RowMessages}

\* sheets with a header and up to MaxExtractRows spend and messages rows, one
\* with a CAC row, and two sheets without a header
ExtractGrids ==
    {<<RowDates>> \o body : body \in SeqsUpTo(ExtractRows, MaxExtractRows)}
        \cup {<<RowDates, RowCac>>, <<>>, <<RowCac, RowSpent>>}

InitExtract ==
    /\ pc = "extract"
    /\ grids \in {<<g, h>> : g, h \in ExtractGrids}
    /\ runs = <<>>
    /\ CellIdle
    /\ ParseIdle
    /\ KpiIdle
    /\ HandlerIdle
    /\ ChartIdle
    /\ PageIdle

\* lines 833 and 847-848 for the i-th grid: parseOverviewStyle, then
\* computeKPIsFromSeries on what it returned unless that is null.  Neither
\* function writes to the grid or to anything that outlives the call.
Extract(i) ==
    /\ pc = "extract"
    /\ Len(runs) < MaxRuns
    /\ grids' = grids
    /\ LET p == parseOverviewStyle(grids[i])
           k == IF p # ParsedNull THEN computeKPIsFromSeries(p.labels, p.series)
                ELSE NoKpis
       IN  /\ aoa' = grids[i]
           /\ headerRowIndex' = ScanHeader(grids[i], 0)
           /\ parsed' = p
           /\ resolved' = IF p # ParsedNull THEN ResolveKeys(p.series) ELSE NoKeys
           /\ kpis' = k
           /\ runs' = Append(runs, [grid |-> grids[i], parsed |-> p, kpis |-> k,
                                    after |-> grids'[i]])
    /\ UNCHANGED <<pc, cellVars, handlerVars, chartVars, pageVars>>

NextExtract == \E i \in 1..2 : Extract(i)

SpecExtract == InitExtract /\ [][NextExtract]_vars

-----------------------------------------------------------------------------
(* C11 *)

-----------------------------------------------------------------------------
(* The page: uploadAndRender and the Target-CAC listener, app.js 538-580 *)

\* the texts of targetCacInput: empty, a number, not a number
TargetTexts == {<<>>, <<"7">>, <<"a">>}

PageGrids == {<<RowDates, RowSpent, RowMessages>>, <<RowDates, RowCac>>}

\* the body of the 200 the upload handler sends for a sheet
SuccessBody(grid) ==
    SuccessRes(cSheet1, grid, parseOverviewStyle(grid),
               computeKPIsFromSeries(parseOverviewStyle(grid).labels,
                                     parseOverviewStyle(grid).series))

OkBodies == {SuccessBody(g) : g \in PageGrids}

\* the bodies of the 422 and of the 500
ErrorBodies == {NotRecognizedRes(cSheet1, <<RowCac>>), ErrorRes(500)}

cChooseFile == "Please choose an .xlsx file first."
cUploading == "Uploading and processing..."
cGenerated == "Dashboard generated successfully"

\* data.error || "Upload failed." for the body of a response that is not OK
ErrorTextOf(body) ==
    IF body.status = 422 THEN "Could not detect Overview-style format."
    ELSE "Server error."

InitPage ==
    /\ pc = "page"
    /\ CellIdle
    /\ ParseIdle
    /\ KpiIdle
    /\ HandlerIdle
    /\ ChartIdle
    /\ PageIdle
    /\ RunIdle

\* a click on uploadBtn (a disabled button dispatches none) with no file
\* chosen: lines 539-543
ClickWithoutFile ==
    /\ pc = "page"
    /\ ~disabled
    /\ statusMsg' = cChooseFile
    /\ UNCHANGED <<pc, cellVars, parseVars, kpiVars, handlerVars, chartVars,
                   disabled, inflight, response, latestPayload, cards, charts,
                   table, runVars>>

\* a click on uploadBtn with a file chosen: lines 539-552, up to the await
ClickUpload ==
    /\ pc = "page"
    /\ ~disabled
    /\ disabled' = TRUE
    /\ statusMsg' = cUploading
    /\ inflight' = inflight + 1
    /\ UNCHANGED <<pc, cellVars, parseVars, kpiVars, handlerVars, chartVars,
                   response, latestPayload, cards, charts, table, runVars>>

\* a completion that enables the button only where the render succeeded
SettleNotOkNoFinally ==
    /\ inflight > 0
    /\ \E body \in ErrorBodies :
          /\ response' = [ok |-> FALSE, body |-> body]
          /\ statusMsg' = ErrorTextOf(body)
    /\ inflight' = inflight - 1
    /\ UNCHANGED <<pc, cellVars, parseVars, kpiVars, handlerVars, chartVars,
                   disabled, latestPayload, cards, charts, table, runVars>>

\* a completion that stores the body before it looks at res.ok
SettleNotOkStoresBody ==
    /\ inflight > 0
    /\ \E body \in ErrorBodies :
          /\ response' = [ok |-> FALSE, body |-> body]
          /\ latestPayload' = body
          /\ statusMsg' = ErrorTextOf(body)
    /\ disabled' = FALSE
    /\ inflight' = inflight - 1
    /\ UNCHANGED <<pc, cellVars, parseVars, kpiVars, handlerVars, chartVars,
                   cards, charts, table, runVars>>

\* fetch or res.json() rejects (no network, a body that is no JSON):
\* lines 552-553, then the catch and the finally of lines 565-570
SettleRejected ==
    /\ inflight > 0
    /\ response' = NoResponse
    /\ statusMsg' \in {"Failed to fetch", "Unexpected token in JSON"}
    /\ disabled' = FALSE
    /\ inflight' = inflight - 1
    /\ UNCHANGED <<pc, cellVars, parseVars, kpiVars, handlerVars, chartVars,
                   latestPayload, cards, charts, table, runVars>>

\* the response is not OK (422, 500): line 554 throws, then lines 565-570
SettleNotOk ==
    /\ inflight > 0
    /\ \E body \in ErrorBodies :
          /\ response' = [ok |-> FALSE, body |-> body]
          /\ statusMsg' = ErrorTextOf(body)
    /\ disabled' = FALSE
    /\ inflight' = inflight - 1
    /\ UNCHANGED <<pc, cellVars, parseVars, kpiVars, handlerVars, chartVars,
                   latestPayload, cards, charts, table, runVars>>

\* the response is OK and the render goes through: lines 552-564 and 568-570
SettleOk ==
    /\ inflight > 0
    /\ \E body \in OkBodies :
          /\ response' = [ok |-> TRUE, body |-> body]
          /\ latestPayload' = body
          /\ cards' = body.kpis
          /\ computedCPM' = ComputedCpmOf(body.series)
          /\ charts' = ChartsOf(body.series, body.kpis)
          /\ recs' = RecsOf(body.series, body.kpis, targetCac)
          /\ table' = body.preview
    /\ statusMsg' = cGenerated
    /\ disabled' = FALSE
    /\ inflight' = inflight - 1
    /\ UNCHANGED <<pc, cellVars, parseVars, kpiVars, handlerVars, targetCac, runVars>>

\* the response is OK and renderCharts throws after destroyCharts (line 252
\* with no Chart library loaded): lines 552-561, then lines 565-570
SettleOkRenderThrows ==
    /\ inflight > 0
    /\ \E body \in OkBodies :
          /\ response' = [ok |-> TRUE, body |-> body]
          /\ latestPayload' = body
          /\ cards' = body.kpis
          /\ computedCPM' = ComputedCpmOf(body.series)
    /\ charts' = NoCharts
    /\ statusMsg' = "Chart is not defined"
    /\ disabled' = FALSE
    /\ inflight' = inflight - 1
    /\ UNCHANGED <<pc, cellVars, parseVars, kpiVars, handlerVars, targetCac, recs,
                   table, runVars>>

\* the input listener of targetCacInput, lines 577-579
EditTargetCac ==
    /\ pc = "page"
    /\ \E text \in TargetTexts \ {targetCac} :
          /\ targetCac' = text
          /\ IF latestPayload # NoPayload
             THEN /\ computedCPM' = ComputedCpmOf(latestPayload.series)
                  /\ charts' = ChartsOf(latestPayload.series, latestPayload.kpis)
                  /\ recs' = RecsOf(latestPayload.series, latestPayload.kpis, text)
             ELSE UNCHANGED <<computedCPM, charts, recs>>
    /\ UNCHANGED <<pc, cellVars, parseVars, kpiVars, handlerVars, disabled,
                   statusMsg, inflight, response, latestPayload, cards, table,
                   runVars>>

\* the continuations of uploadAndRender after its awaits
Settle == SettleRejected \/ SettleNotOk \/ SettleOk \/ SettleOkRenderThrows

NextPage ==
    \/ ClickWithoutFile
    \/ ClickUpload
    \/ SettleRejected
    \/ SettleNotOk
    \/ SettleOk
    \/ SettleOkRenderThrows
    \/ EditTargetCac

SpecPage == InitPage /\ [][NextPage]_vars

\* a fetch settles: it resolves or it rejects, and the continuation then runs
SpecPageLive == SpecPage /\ WF_vars(Settle)

-----------------------------------------------------------------------------
(* C15 *)

\* C15: the upload button is disabled from the moment a request is started
\* until it settles and is enabled after every completion path, so at most
\* one upload is in flight and the button never stays disabled forever.
C15_ButtonDisabledWhileInFlight ==
    /\ [](inflight \in {0, 1} /\ (disabled <=> inflight = 1))
    /\ [][inflight' < inflight => ~disabled']_vars
    /\ (disabled ~> ~disabled)

\* an upload whose render threw has completed: the button is enabled again
C15_Witness ==
    /\ statusMsg = "Chart is not defined"
    /\ response.ok
    /\ inflight = 0
    /\ ~disabled

-----------------------------------------------------------------------------
(* C16 *)

\* C16: window.latestPayload is replaced only by the body of an OK response,
\* and by each of them; an upload that fails (no file chosen, a response that
\* is not OK, a network error) leaves latestPayload, the KPI cards, the
\* charts and the table as they were; a Target-CAC edit re-renders the charts
\* and the recommendations from latestPayload.
C16_PayloadOnlyFromOkResponse ==
    [][/\ (latestPayload' # latestPayload) =>
              (inflight' < inflight /\ response'.ok /\ latestPayload' = response'.body)
       /\ (inflight' < inflight /\ response'.ok) => latestPayload' = response'.body
       /\ (\/ inflight' < inflight /\ ~response'.ok
           \/ statusMsg' = cChooseFile /\ statusMsg # cChooseFile)
             => UNCHANGED <<latestPayload, cards, charts, table>>
       /\ (targetCac' # targetCac /\ latestPayload # NoPayload) =>
              /\ latestPayload' = latestPayload
              /\ charts' = ChartsOf(latestPayload.series, latestPayload.kpis)
              /\ recs' = RecsOf(latestPayload.series, latestPayload.kpis, targetCac')
      ]_vars

\* after a successful upload one that ends in the 422: the page still shows
\* the payload of the first
C16_Witness ==
    /\ ~response.ok
    /\ response.body.status = 422
    /\ statusMsg = "Could not detect Overview-style format."
    /\ latestPayload \in OkBodies
    /\ cards = latestPayload.kpis
    /\ charts = ChartsOf(latestPayload.series, latestPayload.kpis)
    /\ table = latestPayload.preview

-----------------------------------------------------------------------------
(* Inputs of the recommendations specification *)

kCTR == <<"C", "T", "R">>
kCostPerMessage == <<"C", "o", "s", "t", " ", "P", "e", "r", " ", "M", "e", "s", "s", "a", "g", "e">>

\* payload series with or without each of the rows the rules read; every
\* row holds a finite value, as the rows parseOverviewStyle stores do
RecSeriesInputs ==
    {SeriesOf(<<Entry(kAdSpent, s), Entry(kMessages, m), Entry(kRevenue, r),
                Entry(cCAC, c), Entry(kCTR, t), Entry(kCostPerMessage, p)>>) :
        s \in {<<>>, <<Num(5), Num(5)>>, <<Num(5), Num(10)>>},
        m \in {<<>>, <<Num(0), Num(1)>>, <<Num(1), Num(1)>>},
        r \in {<<>>, <<Num(10), Num(10)>>, <<Num(30), Num(30)>>},
        c \in {<<>>, <<Num(5)>>, <<Num(10)>>},
        t \in {<<>>, <<Num(2), Num(2)>>, <<Frac(1, 2), Num(1)>>, <<Null, Frac(3, 2)>>},
        p \in {<<>>, <<Num(5)>>, <<Num(5), Num(5)>>, <<Num(5), Null, Num(10)>>}}

\* the payload of a 200: its kpis are those of its series
InitRecs ==
    /\ pc = "render"
    /\ aoa = <<>>
    /\ headerRowIndex = 0
    /\ \E s \in RecSeriesInputs :
          /\ parsed = [st |-> "ok", labels |-> MonthLabels, series |-> s]
          /\ resolved = ResolveKeys(s)
          /\ kpis = computeKPIsFromSeries(MonthLabels, s)
    /\ computedCPM = <<>>
    /\ targetCac \in TargetTexts
    /\ recs = <<>>
    /\ CellIdle
    /\ HandlerIdle
    /\ PageIdle
    /\ RunIdle

SpecRecs == InitRecs /\ [][NextCharts]_vars

-----------------------------------------------------------------------------
(* C17 *)

\* the finite numbers of a row, in order
FiniteValues(arr) == SelectSeq(arr, LAMBDA v : v.k = "num")

\* a < b for two finite numbers
Below(a, b) == a.n * b.d < b.n * a.d

\* rule 1: ROAS < 3
RoasBelowTarget == kpis.kpis.roas.k = "num" /\ Below(kpis.kpis.roas, Num(3))

\* rule 2: the average of the CTR values < 1
CtrBelowOne ==
    LET ctr == FiniteValues(RowNamed(parsed.series, kCTR))
    IN  ctr # <<>> /\ Below(ReduceAdd(ctr), Num(Len(ctr)))

\* rule 3: CAC > the target CAC, where that is a finite number
CacAboveTarget ==
    /\ kpis.kpis.cac.k = "num"
    /\ StringToNumber(targetCac).k = "num"
    /\ Below(StringToNumber(targetCac), kpis.kpis.cac)

\* rule 4: the last finite cost per message > 1.2 x the finite one before
\* it, in the sheet's row where that has two entries and in the computed
\* series otherwise
CpmRose ==
    LET row == RowNamed(parsed.series, kCostPerMessage)
        cpm == FiniteValues(IF Len(row) >= 2 THEN row ELSE computedCPM)
    IN  /\ Len(cpm) >= 2
        /\ 6 * cpm[Len(cpm) - 1].n * cpm[Len(cpm)].d
               < 5 * cpm[Len(cpm)].n * cpm[Len(cpm) - 1].d

IsIn(r, list) == \E i \in 1..Len(list) : list[i] = r

\* C17: renderRecommendations produces at least one recommendation; the
\* low-level "Healthy signals" is among them if and only if none of the four
\* rules fired, and never together with a high or medium recommendation.
C17_HealthyIffNoRuleFired ==
    (pc = "rendered") =>
        LET healthy == [level |-> "low", title |-> "Healthy signals"]
        IN  /\ Len(recs) >= 1
            /\ IsIn(healthy, recs) <=>
                   ~(RoasBelowTarget \/ CtrBelowOne \/ CacAboveTarget \/ CpmRose)
            /\ IsIn(healthy, recs) =>
                   \A i \in 1..Len(recs) : recs[i].level \notin {"high", "med"}

====
